---- MODULE Spec2Model ----
(***************************************************************************)
(* SmartHire entitlement / usage-metering core.                            *)
(*                                                                         *)
(*   client  (src/src/App.jsx):   usage_limits listener, incrementUsage,   *)
(*                                handleAnalyze, fetchWithRetry             *)
(*   server  (src/unnamed/part_001, server.cjs): /api/webhook              *)
(*                                                                         *)
(* The Firestore document users/{uid}/usage_limits/smarthire_tracker is    *)
(* the entitlement record of tenant uid.  A field bidderChecks that is     *)
(* absent from the document is stored here as 0: every read of it in the   *)
(* code goes through `|| 0` (App.jsx 1059, 1130).                          *)
(***************************************************************************)
EXTENDS Integers, Sequences, FiniteSets, TLC

\* ------------------------------------------------------------------ bounds
Tenants == {"t1", "t2"}
Customers == {"cus1", "cus2"}
NumSessions == 2
NumHandlers == 2
MaxDeliveries == 3
MaxAnalysesLive == 1
MaxUsageSeed == 1
MaxAnalyses == 2
Margin == 1
MaxDeliveriesLive == 2
MaxRequestsSystem == 2
MaxReports == 3
MaxOverLimit == 2
MaxAnalyzeRequests == 2
Addresses == {"addr1", "addr2"}

FirstTenant == "t1"
FirstCustomer == "cus1"
Sessions == 1..NumSessions
Handlers == 1..NumHandlers

\* --------------------------------------------------------- program constants
MAX_FREE_AUDITS == 50
maxRetries == 3

Null == "null"
NoCustomer == "absent"

\* ------------------------------------------------------------------- state
VARIABLES
    records,        \* tenant -> entitlement document in the store
    adminApps,      \* admin.apps.length of the server process (0 or 1)
    userId,         \* session -> tenant the session is logged in as
    role,           \* session -> currentUser.role
    usageLimits,    \* session -> React state fed by the snapshot listener
    showPaywall,    \* session -> React state
    errorMessage,   \* session -> React state
    pc,             \* session -> position inside handleAnalyze
    attempt,        \* session -> loop index i of fetchWithRetry
    delays,         \* session -> the setTimeout delays (ms) of the current call
    thrown,         \* session -> the error fetchWithRetry threw to its caller
    txn,            \* session -> state of the runTransaction in flight
    setDocPending,  \* session -> a lazy-creation setDoc is on its way
    analysesLeft,   \* analyses that may still be started in this run
    completed,      \* tenant -> number of analyses that produced a report
    rejected,       \* tenant -> number of counter transactions that failed
    hook,           \* handler slot -> webhook invocation in flight
    deliveriesLeft, \* webhook deliveries that may still arrive in this run
    applied,        \* events whose effect has been committed
    portal,         \* the /api/create-portal-session request in flight
    reports,        \* admin dashboard: the reports handed to calculateAdminStats
    stats,          \* admin dashboard: what calculateAdminStats returned
    chart,          \* admin dashboard: the entries the skill-gap chart shows
    hits,           \* apiLimiter: address -> totalHits of its current window
    forwarded,      \* address -> requests of its current window passed on
    requestCap,     \* requests an address may send per window in this run
    analyze         \* the /api/analyze request in flight

fetchVars == <<attempt, delays, thrown>>
clientVars == <<userId, role, usageLimits, showPaywall, errorMessage,
                pc, fetchVars, txn, setDocPending, analysesLeft, completed, rejected>>
\* server configuration and the state that only the portal endpoint and the
\* admin dashboard touch
dashVars == <<reports, stats, chart>>
apiVars == <<hits, forwarded, requestCap, analyze>>
restVars == <<adminApps, portal, dashVars, apiVars>>
hookVars == <<restVars, hook, deliveriesLeft, applied>>
vars == <<records, clientVars, hookVars>>

\* ------------------------------------------------------- entitlement record
NoDoc == [exists |-> FALSE, bidderChecks |-> 0, isSubscribed |-> FALSE,
          stripeCustomerId |-> NoCustomer]

\* the literal written by the listener and by incrementUsage for a missing doc
DefaultDoc == [exists |-> TRUE, bidderChecks |-> 0, isSubscribed |-> FALSE,
               stripeCustomerId |-> NoCustomer]

\* usageLimits as set by useState / handleLogout
InitialLimits == [bidderChecks |-> 0, isSubscribed |-> FALSE]

NoTxn == [exists |-> FALSE, bidderChecks |-> 0, stale |-> FALSE]

\* A committed write to the document of tenant t makes every transaction
\* that has read this document fail its commit precondition.
Invalidate(t) ==
    [s \in Sessions |->
        IF userId[s] = t /\ pc[s] = "txnCommit"
        THEN [txn[s] EXCEPT !.stale = TRUE] ELSE txn[s]]

\* ----------------------------------------------------- usage_limits listener
\* onSnapshot callback, document exists: copy the two fields into React state
SnapshotExists(s) ==
    /\ userId[s] # Null
    /\ records[userId[s]].exists
    /\ usageLimits' = [usageLimits EXCEPT ![s] =
            [bidderChecks |-> records[userId[s]].bidderChecks,
             isSubscribed |-> records[userId[s]].isSubscribed]]
    /\ UNCHANGED <<records, userId, role, showPaywall, errorMessage, pc,
                   fetchVars, txn, setDocPending, analysesLeft, completed, rejected,
                   hookVars>>

\* onSnapshot callback, document missing: issue setDoc with the defaults
SnapshotMissing(s) ==
    /\ userId[s] # Null
    /\ ~records[userId[s]].exists
    /\ ~setDocPending[s]
    /\ setDocPending' = [setDocPending EXCEPT ![s] = TRUE]
    /\ UNCHANGED <<records, userId, role, usageLimits, showPaywall, errorMessage,
                   pc, fetchVars, txn, analysesLeft, completed, rejected,
                   hookVars>>

SetDocWrite_Subscribed(old) == [DefaultDoc EXCEPT !.isSubscribed = TRUE]

\* what the setDoc of the listener stores: the whole document is replaced
SetDocWrite(old) == DefaultDoc

\* the setDoc reaches the store: no merge option, no precondition
SetDocCommit(s) ==
    /\ setDocPending[s]
    /\ records' = [records EXCEPT ![userId[s]] = SetDocWrite(@)]
    /\ txn' = Invalidate(userId[s])
    /\ setDocPending' = [setDocPending EXCEPT ![s] = FALSE]
    /\ UNCHANGED <<userId, role, usageLimits, showPaywall, errorMessage,
                   pc, fetchVars, analysesLeft, completed, rejected, hookVars>>

\* the setDoc is rejected: .catch(console.error)
SetDocFail(s) ==
    /\ setDocPending[s]
    /\ setDocPending' = [setDocPending EXCEPT ![s] = FALSE]
    /\ UNCHANGED <<records, userId, role, usageLimits, showPaywall, errorMessage,
                   pc, fetchVars, txn, analysesLeft, completed, rejected,
                   hookVars>>

\* ------------------------------------------------------------ handleAnalyze
GateDenies_OffByOne(r, limits) ==
    /\ r # "ADMIN"
    /\ ~limits.isSubscribed
    /\ limits.bidderChecks > MAX_FREE_AUDITS

\* the condition of the first `if` of handleAnalyze
GateDenies(r, limits) ==
    /\ r # "ADMIN"
    /\ ~limits.isSubscribed
    /\ limits.bidderChecks >= MAX_FREE_AUDITS

\* handleAnalyze up to its first await
HandleAnalyze(s, filesChosen) ==
    /\ userId[s] # Null
    /\ pc[s] = "idle"
    /\ IF GateDenies(role[s], usageLimits[s])
       THEN /\ showPaywall' = [showPaywall EXCEPT ![s] = TRUE]
            /\ UNCHANGED <<errorMessage, pc, analysesLeft>>
       ELSE IF ~filesChosen
       THEN /\ errorMessage' = [errorMessage EXCEPT ![s] = "upload"]
            /\ UNCHANGED <<showPaywall, pc, analysesLeft>>
       ELSE /\ analysesLeft > 0
            /\ errorMessage' = [errorMessage EXCEPT ![s] = Null]
            /\ pc' = [pc EXCEPT ![s] = "processFile"]
            /\ analysesLeft' = analysesLeft - 1
            /\ UNCHANGED showPaywall
    /\ UNCHANGED <<records, userId, role, usageLimits, fetchVars, txn,
                   setDocPending, completed, rejected, hookVars>>

AnalysisFailed_CountsAnyway(s) ==
    /\ errorMessage' = [errorMessage EXCEPT ![s] = "failed"]
    /\ pc' = [pc EXCEPT ![s] = "txnGet"]

\* catch (error) { setErrorMessage(...) } finally { setLoading(false) }
AnalysisFailed(s) ==
    /\ errorMessage' = [errorMessage EXCEPT ![s] = "failed"]
    /\ pc' = [pc EXCEPT ![s] = "idle"]

\* the two awaited processFile calls
ProcessFile(s, ok) ==
    /\ pc[s] = "processFile"
    /\ IF ok
       THEN /\ pc' = [pc EXCEPT ![s] = "fetch"]
            /\ attempt' = [attempt EXCEPT ![s] = 0]
            /\ delays' = [delays EXCEPT ![s] = <<>>]
            /\ thrown' = [thrown EXCEPT ![s] = Null]
            /\ UNCHANGED errorMessage
       ELSE /\ AnalysisFailed(s)
            /\ UNCHANGED fetchVars
    /\ UNCHANGED <<records, userId, role, usageLimits, showPaywall, txn,
                   setDocPending, analysesLeft, completed, rejected, hookVars>>

\* what an attempt can fail with: fetch rejects, or the response is not ok
\* and the loop body throws new Error(`HTTP error! Status: ...`)
FetchErrors == {"network", "http"}

Backoff_Constant(i) == 1000

\* the setTimeout argument after failed attempt i: Math.pow(2, i) * 1000
Backoff(i) == (2 ^ i) * 1000

\* fetchWithRetry: attempt i fails with err; on the last attempt the error is
\* rethrown to handleAnalyze, otherwise the loop sleeps and goes on
FetchAttemptFails(s, err) ==
    /\ pc[s] = "fetch"
    /\ IF attempt[s] = maxRetries - 1
       THEN /\ thrown' = [thrown EXCEPT ![s] = err]
            /\ AnalysisFailed(s)
            /\ UNCHANGED <<attempt, delays>>
       ELSE /\ delays' = [delays EXCEPT ![s] = Append(@, Backoff(attempt[s]))]
            /\ attempt' = [attempt EXCEPT ![s] = @ + 1]
            /\ UNCHANGED <<pc, errorMessage, thrown>>
    /\ UNCHANGED <<records, userId, role, usageLimits, showPaywall, txn,
                   setDocPending, analysesLeft, completed, rejected, hookVars>>

\* incrementUsage up to its first await: if (!db || !userId) return;
IncrementUsageCall(s) == IF userId[s] = Null THEN "idle" ELSE "txnGet"

\* fetchWithRetry returns a response; handleAnalyze reads it
\*   body = "report": candidates[0].content.parts[0].text parses as JSON,
\*                    setReport(JSON.parse(jsonText)) and incrementUsage()
\*   body = "noText": no text in the reply;  body = "badJson": JSON.parse throws
FetchAttemptSucceeds(s, body) ==
    /\ pc[s] = "fetch"
    /\ IF body = "report"
       THEN /\ completed' = [completed EXCEPT ![userId[s]] = @ + 1]
            /\ pc' = [pc EXCEPT ![s] = IncrementUsageCall(s)]
            /\ UNCHANGED errorMessage
       ELSE /\ AnalysisFailed(s)
            /\ UNCHANGED completed
    /\ UNCHANGED <<records, userId, role, usageLimits, showPaywall, fetchVars, txn,
                   setDocPending, analysesLeft, rejected, hookVars>>

\* ------------------------------------------------------------ incrementUsage
\* transaction.get(docRef)
TxnGet(s) ==
    /\ pc[s] = "txnGet"
    /\ txn' = [txn EXCEPT ![s] =
            [exists |-> records[userId[s]].exists,
             bidderChecks |-> records[userId[s]].bidderChecks,
             stale |-> FALSE]]
    /\ pc' = [pc EXCEPT ![s] = "txnCommit"]
    /\ UNCHANGED <<records, userId, role, usageLimits, showPaywall, errorMessage,
                   fetchVars, setDocPending, analysesLeft, completed, rejected,
                   hookVars>>

\* the writes of the update function applied to the store:
\*   if (!docSnap.exists()) transaction.set(docRef, currentData);
\*   transaction.update(docRef, { bidderChecks: (currentData.bidderChecks || 0) + 1 })
TxnWrite(old, read) ==
    IF read.exists
    THEN [old EXCEPT !.bidderChecks = read.bidderChecks + 1]
    ELSE [DefaultDoc EXCEPT !.bidderChecks = 1]

TxnMayCommit_Unguarded(s) == TRUE

\* the commit precondition of runTransaction: the document read is unchanged
TxnMayCommit(s) == ~txn[s].stale

TxnCommit(s) ==
    /\ pc[s] = "txnCommit"
    /\ TxnMayCommit(s)
    /\ records' = [records EXCEPT ![userId[s]] = TxnWrite(@, txn[s])]
    /\ txn' = [Invalidate(userId[s]) EXCEPT ![s] = NoTxn]
    /\ pc' = [pc EXCEPT ![s] = "idle"]
    /\ UNCHANGED <<userId, role, usageLimits, showPaywall, errorMessage,
                   fetchVars, setDocPending, analysesLeft, completed, rejected, hookVars>>

\* the document changed since it was read: runTransaction runs the update
\* function again
TxnRetry(s) ==
    /\ pc[s] = "txnCommit"
    /\ ~TxnMayCommit(s)
    /\ txn' = [txn EXCEPT ![s] = NoTxn]
    /\ pc' = [pc EXCEPT ![s] = "txnGet"]
    /\ UNCHANGED <<records, userId, role, usageLimits, showPaywall, errorMessage,
                   fetchVars, setDocPending, analysesLeft, completed, rejected,
                   hookVars>>

\* runTransaction rejects (store failure, attempts exhausted):
\*   catch (e) { console.error("Usage update failed:", e); }
TxnReject(s) ==
    /\ pc[s] = "txnCommit"
    /\ txn' = [txn EXCEPT ![s] = NoTxn]
    /\ rejected' = [rejected EXCEPT ![userId[s]] = @ + 1]
    /\ pc' = [pc EXCEPT ![s] = "idle"]
    /\ UNCHANGED <<records, userId, role, usageLimits, showPaywall, errorMessage,
                   fetchVars, setDocPending, analysesLeft, completed, hookVars>>

NextTxn ==
    \E s \in Sessions : TxnGet(s) \/ TxnCommit(s) \/ TxnRetry(s) \/ TxnReject(s)

NextClient ==
    \/ \E s \in Sessions : SnapshotExists(s)
    \/ \E s \in Sessions : SnapshotMissing(s)
    \/ \E s \in Sessions : SetDocCommit(s)
    \/ \E s \in Sessions : SetDocFail(s)
    \/ \E s \in Sessions, f \in BOOLEAN : HandleAnalyze(s, f)
    \/ \E s \in Sessions, ok \in BOOLEAN : ProcessFile(s, ok)
    \/ \E s \in Sessions, err \in FetchErrors : FetchAttemptFails(s, err)
    \/ \E s \in Sessions, b \in {"report", "noText", "badJson"} :
            FetchAttemptSucceeds(s, b)
    \/ NextTxn

\* ------------------------------------------------------------- /api/webhook
EventTypes == {"checkout.session.completed", "customer.subscription.deleted",
               "invoice.paid"}

\* what a delivery carries: stripe-signature valid or not, event.type,
\* data.object.client_reference_id and data.object.customer
VerifiedEvents ==
    [sig : {TRUE}, type : {"checkout.session.completed"},
     client_reference_id : Tenants \cup {Null}, customer : Customers]
    \cup
    [sig : {TRUE}, type : {"customer.subscription.deleted"},
     client_reference_id : {Null}, customer : Customers]
    \cup
    [sig : {TRUE}, type : {"invoice.paid"},
     client_reference_id : {Null}, customer : {FirstCustomer}]

\* payloads whose signature does not verify, one per event type
ForgedEvents ==
    [sig : {FALSE}, type : {"checkout.session.completed"},
     client_reference_id : {FirstTenant}, customer : {FirstCustomer}]
    \cup
    [sig : {FALSE}, type : EventTypes \ {"checkout.session.completed"},
     client_reference_id : {Null}, customer : {FirstCustomer}]

Events == VerifiedEvents \cup ForgedEvents

NoEvent == [sig |-> FALSE, type |-> "none", client_reference_id |-> Null,
            customer |-> NoCustomer]

FreeHook == [pc |-> "free", event |-> NoEvent, redelivery |-> FALSE,
             response |-> 0,
             snapshot |-> {}, pending |-> {}, downgraded |-> {}, failed |-> {}]

\* The request is over (response sent or handler rejected, no write of it in
\* flight): its locals are gone, the slot keeps the status it answered with
\* (0: no response was sent).
Finished(pcEnd, status) == [FreeHook EXCEPT !.pc = pcEnd, !.response = status]

\* a slot can take a new request when its handler has returned and none of
\* the writes it started is still in flight
HookIdle(d) == hook[d].pc \in {"free", "hung"}

ConstructEvent_Unverified(e) == TRUE

\* stripe.webhooks.constructEvent(req.rawBody, sig, STRIPE_WEBHOOK_SECRET)
ConstructEvent(e) == e.sig

Dispatch_NoReferenceCheck(e) ==
    IF ~ConstructEvent(e)
    THEN [pc |-> "free", response |-> 400]
    ELSE IF e.type = "checkout.session.completed" /\ adminApps > 0
    THEN [pc |-> "awaitSet", response |-> 0]
    ELSE IF e.type = "customer.subscription.deleted" /\ adminApps > 0
    THEN [pc |-> "awaitQuery", response |-> 0]
    ELSE [pc |-> "free", response |-> 200]

Dispatch_ElseCancels(e) ==
    IF ~ConstructEvent(e)
    THEN [pc |-> "free", response |-> 400]
    ELSE IF e.type = "checkout.session.completed"
              /\ e.client_reference_id # Null /\ adminApps > 0
    THEN [pc |-> "awaitSet", response |-> 0]
    ELSE IF e.type # "checkout.session.completed" /\ adminApps > 0
    THEN [pc |-> "awaitQuery", response |-> 0]
    ELSE [pc |-> "free", response |-> 200]

\* the handler from its entry to its first await (or to its response)
Dispatch(e) ==
    IF ~ConstructEvent(e)
    THEN [pc |-> "free", response |-> 400]
    ELSE IF e.type = "checkout.session.completed"
              /\ e.client_reference_id # Null /\ adminApps > 0
    THEN [pc |-> "awaitSet", response |-> 0]
    ELSE IF e.type = "customer.subscription.deleted" /\ adminApps > 0
    THEN [pc |-> "awaitQuery", response |-> 0]
    ELSE [pc |-> "free", response |-> 200]

\* a request answered before any await: the slot keeps, besides the status,
\* the event.type the handler saw (no event exists when constructEvent threw)
Answered(e, status) ==
    [Finished("free", status) EXCEPT
        !.event.type = IF ConstructEvent(e) THEN e.type ELSE "none"]

Deliver(d, e) ==
    /\ deliveriesLeft > 0
    /\ HookIdle(d)
    /\ \A d2 \in Handlers : d2 < d => ~HookIdle(d2)
    /\ deliveriesLeft' = deliveriesLeft - 1
    /\ hook' = [hook EXCEPT ![d] =
            IF Dispatch(e).pc = "free"
            THEN Answered(e, Dispatch(e).response)
            ELSE [FreeHook EXCEPT !.pc = Dispatch(e).pc, !.event = e,
                                  !.redelivery = (e \in applied)]]
    /\ UNCHANGED <<records, clientVars, restVars, applied>>

ActivationWrite_NoMerge(old, customer) ==
    [exists |-> TRUE, bidderChecks |-> 0, isSubscribed |-> TRUE,
     stripeCustomerId |-> customer]

\* set({ isSubscribed: true, stripeCustomerId }, { merge: true })
ActivationWrite(old, customer) ==
    [old EXCEPT !.exists = TRUE, !.isSubscribed = TRUE,
                !.stripeCustomerId = customer]

\* the awaited set() of the unlock branch commits; the handler falls through
\* to res.send()
ActivationCommit(d) ==
    /\ hook[d].pc = "awaitSet"
    /\ LET t == hook[d].event.client_reference_id IN
        /\ records' = [records EXCEPT ![t] =
                          ActivationWrite(@, hook[d].event.customer)]
        /\ txn' = Invalidate(t)
    /\ hook' = [hook EXCEPT ![d] = Finished("free", 200)]
    /\ applied' = applied \cup {hook[d].event}
    /\ UNCHANGED <<userId, role, usageLimits, showPaywall, errorMessage,
                   pc, fetchVars, setDocPending, analysesLeft, completed, rejected,
                   restVars, deliveriesLeft>>

\* the awaited set() rejects: the async handler rejects before res.send(),
\* no response is ever sent
ActivationFail(d) ==
    /\ hook[d].pc = "awaitSet"
    /\ hook' = [hook EXCEPT ![d] = Finished("hung", 0)]
    /\ UNCHANGED <<records, clientVars, restVars, deliveriesLeft, applied>>

QueryMatches_FirstOnly(customer) ==
    LET all == {t \in Tenants :
                    records[t].exists /\ records[t].stripeCustomerId = customer}
    IN  IF all = {} THEN {} ELSE {CHOOSE t \in all : TRUE}

QueryMatches_AllWhenEmpty(customer) ==
    LET all == {t \in Tenants :
                    records[t].exists /\ records[t].stripeCustomerId = customer}
    IN  IF all = {} THEN {t \in Tenants : records[t].exists} ELSE all

\* collectionGroup('usage_limits').where('stripeCustomerId', '==', customer)
QueryMatches(customer) ==
    {t \in Tenants : records[t].exists /\ records[t].stripeCustomerId = customer}

\* the query resolves; forEach starts one update per document without
\* awaiting it, the try block ends and res.send() runs
QueryDone(d) ==
    /\ hook[d].pc = "awaitQuery"
    /\ LET snap == QueryMatches(hook[d].event.customer) IN
        /\ hook' = [hook EXCEPT ![d] =
                IF snap = {}
                THEN Finished("free", 200)
                ELSE [@ EXCEPT !.pc = "responded", !.response = 200,
                               !.snapshot = snap, !.pending = snap]]
        /\ applied' = IF snap = {} THEN applied \cup {hook[d].event} ELSE applied
    /\ UNCHANGED <<records, clientVars, restVars, deliveriesLeft>>

\* the query rejects: catch (err) { console.error(...) }, then res.send()
QueryFail(d) ==
    /\ hook[d].pc = "awaitQuery"
    /\ hook' = [hook EXCEPT ![d] = Finished("free", 200)]
    /\ UNCHANGED <<records, clientVars, restVars, deliveriesLeft, applied>>

DowngradeWrite_Replace(old) == DefaultDoc

\* doc.ref.update({ isSubscribed: false })
DowngradeWrite(old) == [old EXCEPT !.isSubscribed = FALSE]

Settled_AbortOnFailure(h, t, ok) ==
    IF h.pending = {t} \/ ~ok
    THEN Finished("free", h.response)
    ELSE [h EXCEPT !.pending = @ \ {t}, !.downgraded = @ \cup {t}]

\* the slot after one of its updates has settled
Settled(h, t, ok) ==
    IF h.pending = {t}
    THEN Finished("free", h.response)
    ELSE [h EXCEPT !.pending = @ \ {t},
                   !.downgraded = IF ok THEN @ \cup {t} ELSE @,
                   !.failed = IF ok THEN @ ELSE @ \cup {t}]

\* one of the updates started by forEach commits
UpdateCommit(d, t) ==
    /\ hook[d].pc = "responded"
    /\ t \in hook[d].pending
    /\ records[t].exists
    /\ records' = [records EXCEPT ![t] = DowngradeWrite(@)]
    /\ txn' = Invalidate(t)
    /\ hook' = [hook EXCEPT ![d] = Settled(@, t, TRUE)]
    /\ applied' = IF hook[d].pending = {t} /\ hook[d].failed = {}
                  THEN applied \cup {hook[d].event} ELSE applied
    /\ UNCHANGED <<userId, role, usageLimits, showPaywall, errorMessage,
                   pc, fetchVars, setDocPending, analysesLeft, completed, rejected,
                   restVars, deliveriesLeft>>

\* one of the updates rejects: nothing awaits or catches the promise
UpdateFail(d, t) ==
    /\ hook[d].pc = "responded"
    /\ t \in hook[d].pending
    /\ hook' = [hook EXCEPT ![d] = Settled(@, t, FALSE)]
    /\ UNCHANGED <<records, clientVars, restVars, deliveriesLeft, applied>>

NextWebhook ==
    \/ \E d \in Handlers, e \in Events : Deliver(d, e)
    \/ \E d \in Handlers : ActivationCommit(d)
    \/ \E d \in Handlers : ActivationFail(d)
    \/ \E d \in Handlers : QueryDone(d)
    \/ \E d \in Handlers : QueryFail(d)
    \/ \E d \in Handlers, t \in Tenants : UpdateCommit(d, t)
    \/ \E d \in Handlers, t \in Tenants : UpdateFail(d, t)

\* ------------------------------------------------ /api/create-portal-session
\* process.env.STRIPE_SECRET_KEY is set in the deployment that is modelled
STRIPE_SECRET_KEY == TRUE

FreePortal == [pc |-> "free", userId |-> Null, userDoc |-> NoDoc,
               customer |-> NoCustomer, status |-> 0, url |-> NoCustomer]

\* the request is answered: res.status(status).json(...) or res.json({ url })
PortalAnswer(status, url) == [FreePortal EXCEPT !.status = status, !.url = url]

PortalCustomer_SubscribedOnly(userDoc) ==
    IF userDoc.exists /\ userDoc.isSubscribed
    THEN userDoc.stripeCustomerId ELSE NoCustomer

\* userDoc.data()?.stripeCustomerId
PortalCustomer(userDoc) ==
    IF userDoc.exists THEN userDoc.stripeCustomerId ELSE NoCustomer

\* the handler up to its first await.  Without the key it answers 500; when
\* Firebase Admin is not initialised admin.firestore() throws, and without a
\* userId in the body doc(userId) throws: both land in the catch block
PortalRequest(u) ==
    /\ portal.pc = "free"
    /\ portal' = IF ~STRIPE_SECRET_KEY THEN PortalAnswer(500, NoCustomer)
                 ELSE IF adminApps = 0 \/ u = Null
                 THEN PortalAnswer(500, NoCustomer)
                 ELSE [FreePortal EXCEPT !.pc = "awaitGet", !.userId = u]
    /\ UNCHANGED <<records, clientVars, adminApps, dashVars, apiVars,
                   hook, deliveriesLeft, applied>>

\* the get() resolves: 404 without a stripeCustomerId, otherwise the portal
\* session is requested from Stripe
PortalGetDone ==
    /\ portal.pc = "awaitGet"
    /\ LET stripeCustomerId == PortalCustomer(records[portal.userId]) IN
        portal' = IF stripeCustomerId = NoCustomer
                  THEN PortalAnswer(404, NoCustomer)
                  ELSE [portal EXCEPT !.pc = "awaitCreate",
                                      !.userDoc = records[portal.userId],
                                      !.customer = stripeCustomerId]
    /\ UNCHANGED <<records, clientVars, adminApps, dashVars, apiVars,
                   hook, deliveriesLeft, applied>>

\* billingPortal.sessions.create resolves: res.json({ url: session.url })
PortalCreateDone ==
    /\ portal.pc = "awaitCreate"
    /\ portal' = PortalAnswer(200, portal.customer)
    /\ UNCHANGED <<records, clientVars, adminApps, dashVars, apiVars,
                   hook, deliveriesLeft, applied>>

\* the get() or the Stripe call rejects: catch (error) { res.status(500)... }
PortalFail ==
    /\ portal.pc \in {"awaitGet", "awaitCreate"}
    /\ portal' = PortalAnswer(500, NoCustomer)
    /\ UNCHANGED <<records, clientVars, adminApps, dashVars, apiVars,
                   hook, deliveriesLeft, applied>>

NextPortal ==
    \/ \E u \in Tenants \cup {Null} : PortalRequest(u)
    \/ PortalGetDone
    \/ PortalCreateDone
    \/ PortalFail

\* ------------------------------------------------------------ /api/analyze
\* apiLimiter: rateLimit({ windowMs: 15 * 60 * 1000, limit: 100, message })
limit == 100
TooManyRequests == "Too many requests, please try again later."

\* request bodies ({ contents, systemInstruction, generationConfig })
Bodies == {"body1", "body2"}

\* what the call to the model API may come to: a reply with response.ok, a
\* reply without it (with or without data.error.message), or a rejection of
\* fetch / response.json()
UpstreamReplies ==
    {[ok |-> TRUE, data |-> "analysis1", message |-> Null],
     [ok |-> TRUE, data |-> "analysis2", message |-> Null],
     [ok |-> FALSE, data |-> Null, message |-> "API key not valid"],
     [ok |-> FALSE, data |-> Null, message |-> Null],
     [ok |-> FALSE, data |-> Null, message |-> "fetch failed"]}

FreeAnalyze == [pc |-> "free", address |-> Null, body |-> Null,
                status |-> 0, payload |-> Null]

AnalyzeAnswer(status, payload) ==
    [FreeAnalyze EXCEPT !.status = status, !.payload = payload]

LimitExceeded_OffByOne(totalHits) == totalHits > limit + 1

\* the limiter answers 429 once the hits of the window exceed the limit
LimitExceeded(totalHits) == totalHits > limit

AnalyzeResponse_Entitled(reply) ==
    IF \E t \in Tenants : /\ records[t].exists
                          /\ ~records[t].isSubscribed
                          /\ records[t].bidderChecks >= MAX_FREE_AUDITS
    THEN AnalyzeAnswer(403, "Upgrade required")
    ELSE IF reply.ok THEN AnalyzeAnswer(200, reply.data)
    ELSE AnalyzeAnswer(500, "Google API Error")

\* if (!response.ok) throw new Error(data.error?.message || 'Google API
\* Error'); res.json(data); catch: res.status(500).json({ error: error.message })
AnalyzeResponse(reply) ==
    IF reply.ok THEN AnalyzeAnswer(200, reply.data)
    ELSE IF reply.message # Null THEN AnalyzeAnswer(500, reply.message)
    ELSE AnalyzeAnswer(500, "Google API Error")

\* a request of address a arrives: the limiter counts it and either answers
\* 429 with its message or passes it on to the handler, which calls the
\* model API with the body
AnalyzeRequest(a, body) ==
    /\ analyze.pc = "free"
    /\ hits[a] < requestCap
    /\ hits' = [hits EXCEPT ![a] = @ + 1]
    /\ IF LimitExceeded(hits'[a])
       THEN /\ analyze' = AnalyzeAnswer(429, TooManyRequests)
            /\ UNCHANGED forwarded
       ELSE /\ analyze' = [FreeAnalyze EXCEPT !.pc = "awaitFetch",
                                              !.address = a, !.body = body]
            /\ forwarded' = [forwarded EXCEPT ![a] = @ + 1]
    /\ UNCHANGED <<records, clientVars, adminApps, portal, dashVars,
                   requestCap, hook, deliveriesLeft, applied>>

\* the call to the model API settles and the handler answers
AnalyzeFetchDone(reply) ==
    /\ analyze.pc = "awaitFetch"
    /\ analyze' = AnalyzeResponse(reply)
    /\ UNCHANGED <<records, clientVars, adminApps, portal, dashVars,
                   hits, forwarded, requestCap, hook, deliveriesLeft, applied>>

\* windowMs have passed since the first hit of the window of address a: its
\* next request starts a new window
WindowExpires(a) ==
    /\ hits[a] > 0
    /\ hits' = [hits EXCEPT ![a] = 0]
    /\ forwarded' = [forwarded EXCEPT ![a] = 0]
    /\ UNCHANGED <<records, clientVars, adminApps, portal, dashVars,
                   requestCap, analyze, hook, deliveriesLeft, applied>>

NextAnalyze ==
    \/ \E a \in Addresses, body \in Bodies : AnalyzeRequest(a, body)
    \/ \E reply \in UpstreamReplies : AnalyzeFetchDone(reply)
    \/ \E a \in Addresses : WindowExpires(a)

\* ---------------------------------------------------------- admin dashboard
\* JavaScript values as far as calculateAdminStats can tell them apart.  A
\* string is the sequence of its characters; numbers are the naturals that
\* the sums of the samples produce.
Undefined == [k |-> "undefined", n |-> 0, s |-> <<>>, a |-> <<>>]
JsNull == [k |-> "null", n |-> 0, s |-> <<>>, a |-> <<>>]
NaN == [k |-> "NaN", n |-> 0, s |-> <<>>, a |-> <<>>]
Num(n) == [k |-> "number", n |-> n, s |-> <<>>, a |-> <<>>]
Str(s) == [k |-> "string", n |-> 0, s |-> s, a |-> <<>>]
JsTrue == [k |-> "boolean", n |-> 1, s |-> <<>>, a |-> <<>>]
Arr(items) == [k |-> "array", n |-> 0, s |-> <<>>, a |-> items]

DigitChars == <<"0", "1", "2", "3", "4", "5", "6", "7", "8", "9">>
DigitValue(c) == (CHOOSE i \in 1..10 : DigitChars[i] = c) - 1
IsDigit(c) == \E i \in 1..10 : DigitChars[i] = c

RECURSIVE Digits(_)
\* Number.prototype.toString of a natural
Digits(n) ==
    IF n < 10 THEN <<DigitChars[n + 1]>>
    ELSE Digits(n \div 10) \o <<DigitChars[(n % 10) + 1]>>

RECURSIVE ParseDigits(_)
ParseDigits(s) ==
    IF s = <<>> THEN 0
    ELSE 10 * ParseDigits(SubSeq(s, 1, Len(s) - 1)) + DigitValue(s[Len(s)])

RECURSIVE TrimStart(_)
TrimStart(s) ==
    IF s # <<>> /\ Head(s) = " " THEN TrimStart(Tail(s)) ELSE s

RECURSIVE TrimEnd(_)
TrimEnd(s) ==
    IF s # <<>> /\ s[Len(s)] = " "
    THEN TrimEnd(SubSeq(s, 1, Len(s) - 1)) ELSE s

\* String.prototype.trim
Trim(s) == TrimEnd(TrimStart(s))

\* the boolean conversion behind `||`, `&&` and `if`
Truthy(v) ==
    CASE v.k = "number" -> v.n # 0
      [] v.k = "string" -> v.s # <<>>
      [] v.k = "boolean" -> v.n = 1
      [] v.k = "array" -> TRUE
      [] OTHER -> FALSE

\* ToNumber: "" and blank strings are 0, digit strings are their value, every
\* other string of the samples is NaN; null is 0, true is 1, undefined is NaN
ToNumber(v) ==
    CASE v.k = "number" -> v
      [] v.k = "boolean" -> Num(v.n)
      [] v.k = "null" -> Num(0)
      [] v.k = "string" ->
            IF \A i \in 1..Len(Trim(v.s)) : IsDigit(Trim(v.s)[i])
            THEN Num(ParseDigits(Trim(v.s))) ELSE NaN
      [] OTHER -> NaN

\* the global isNaN(v)
IsNaN(v) == ToNumber(v).k = "NaN"

\* JsToString of the values that reach a `+`
JsToString(v) ==
    CASE v.k = "number" -> Digits(v.n)
      [] v.k = "string" -> v.s
      [] v.k = "boolean" -> <<"t", "r", "u", "e">>
      [] v.k = "null" -> <<"n", "u", "l", "l">>
      [] v.k = "NaN" -> <<"N", "a", "N">>
      [] OTHER -> <<"u", "n", "d", "e", "f", "i", "n", "e", "d">>

\* the binary + of JavaScript: concatenation as soon as one side is a string
Plus(x, y) ==
    IF x.k = "string" \/ y.k = "string"
    THEN Str(JsToString(x) \o JsToString(y))
    ELSE IF IsNaN(x) \/ IsNaN(y) THEN NaN
    ELSE Num(ToNumber(x).n + ToNumber(y).n)

\* (x / count).toFixed(1): the quotient rounded to one decimal, as a string.
\* For the counts reached here a tie (quotient ending in 5 hundredths) only
\* arises for quarters, which are exact doubles and round up.
ToFixed1(x, count) ==
    IF IsNaN(x) THEN Str(<<"N", "a", "N">>)
    ELSE LET tenths == (20 * ToNumber(x).n + count) \div (2 * count)
         IN  Str(Digits(tenths \div 10) \o <<".">> \o Digits(tenths % 10))

\* String.prototype.toLowerCase on the letters of the samples
LowerOf == ("S" :> "s") @@ ("Q" :> "q") @@ ("L" :> "l")
ToLowerCase(s) ==
    [i \in 1..Len(s) |-> IF s[i] \in DOMAIN LowerOf THEN LowerOf[s[i]] ELSE s[i]]

NotDotOrComma(c) == c \notin {".", ","}

\* gap.toLowerCase().trim().replace(/[.,]/g, '')
NormalizedGap(gap) == SelectSeq(Trim(ToLowerCase(gap)), NotDotOrComma)

\* stats.skillGapCounts[key] = (stats.skillGapCounts[key] || 0) + 1, the
\* table kept as its entries in insertion order
Bump(table, key) ==
    IF \E i \in 1..Len(table) : table[i].key = key
    THEN [i \in 1..Len(table) |->
            IF table[i].key = key
            THEN [table[i] EXCEPT !.count = @ + 1] ELSE table[i]]
    ELSE Append(table, [key |-> key, count |-> 1])

RECURSIVE CountGaps(_, _)
\* report.skillGaps.forEach(gap => ...): gap.toLowerCase is not a function
\* unless gap is a string, and the call throws a TypeError
CountGaps(acc, gaps) ==
    IF gaps = <<>> \/ acc.threw THEN acc
    ELSE IF Head(gaps).k # "string"
    THEN [acc EXCEPT !.threw = TRUE]
    ELSE CountGaps([acc EXCEPT !.skillGapCounts =
                        Bump(@, NormalizedGap(Head(gaps).s))], Tail(gaps))

\* the body of reports.forEach(report => ...) for one report; the counters
\* roleCounts, fitCounts, locationCounts and salaryDataCount are left out
ForEachReport(acc, report) ==
    LET score == IF Truthy(report.suitabilityScore)
                 THEN report.suitabilityScore ELSE Num(0)
        exp == report.yearsExperienceNum
        counted == exp.k \notin {"undefined", "null"} /\ ~IsNaN(exp)
        acc1 == [acc EXCEPT
                    !.totalScoreSum = Plus(@, score),
                    !.totalExpSum = IF counted THEN Plus(@, exp) ELSE @,
                    !.expCount = IF counted THEN @ + 1 ELSE @]
    IN  IF Truthy(report.skillGaps) /\ report.skillGaps.k = "array"
        THEN CountGaps(acc1, report.skillGaps.a)
        ELSE acc1

RECURSIVE FoldReports(_, _)
FoldReports(acc, rs) ==
    IF rs = <<>> \/ acc.threw THEN acc
    ELSE FoldReports(ForEachReport(acc, Head(rs)), Tail(rs))

\* the stats state before the effect has run: useState(null)
NoStats == [state |-> "none", totalReports |-> 0, avgScore |-> Undefined,
            avgExperience |-> Undefined, skillGapCounts |-> <<>>]

calculateAdminStats(rs) ==
    LET acc == FoldReports([totalScoreSum |-> Num(0), totalExpSum |-> Num(0),
                            expCount |-> 0, skillGapCounts |-> <<>>,
                            threw |-> FALSE], rs)
    IN  IF Len(rs) = 0
        THEN [NoStats EXCEPT !.state = "ok", !.avgScore = Num(0),
                             !.avgExperience = Num(0)]
        ELSE IF acc.threw
        THEN [NoStats EXCEPT !.state = "threw"]
        ELSE [state |-> "ok",
              totalReports |-> Len(rs),
              avgScore |-> ToFixed1(acc.totalScoreSum, Len(rs)),
              avgExperience |-> IF acc.expCount > 0
                                THEN ToFixed1(acc.totalExpSum, acc.expCount)
                                ELSE Num(0),
              skillGapCounts |-> acc.skillGapCounts]

\* the effect of AdminDashboard: setStats(calculateAdminStats(enriched)); a
\* throw leaves the state unset, which is recorded as "threw"
EnrichData ==
    /\ stats.state = "none"
    /\ stats' = calculateAdminStats(reports)
    /\ UNCHANGED <<records, clientVars, adminApps, portal, reports, chart,
                   apiVars, hook, deliveriesLeft, applied>>

\* every digit string without a leading zero of at most this many digits is
\* below 2^32 - 1
MaxIndexDigits == 9

\* a property key that is an array index ("0", "7", "10", not "07"): own
\* properties with such keys are enumerated first, in ascending numeric order
IsArrayIndex(key) ==
    /\ key # <<>>
    /\ \A i \in 1..Len(key) : IsDigit(key[i])
    /\ (Len(key) = 1 \/ key[1] # "0")
    /\ Len(key) <= MaxIndexDigits

HasIndexKey(e) == IsArrayIndex(e.key)
HasNameKey(e) == ~IsArrayIndex(e.key)

RECURSIVE InsertByIndex(_, _)
InsertByIndex(sorted, e) ==
    IF sorted = <<>> THEN <<e>>
    ELSE IF ParseDigits(Head(sorted).key) < ParseDigits(e.key)
    THEN <<Head(sorted)>> \o InsertByIndex(Tail(sorted), e)
    ELSE <<e>> \o sorted

RECURSIVE AscendingIndex(_)
AscendingIndex(entries) ==
    IF entries = <<>> THEN <<>>
    ELSE InsertByIndex(AscendingIndex(SubSeq(entries, 1, Len(entries) - 1)),
                       entries[Len(entries)])

\* Object.entries(data) of a table built by Bump: the array-index keys in
\* ascending numeric order, then the other keys in insertion order
ObjectEntries(data) ==
    AscendingIndex(SelectSeq(data, HasIndexKey)) \o SelectSeq(data, HasNameKey)

RECURSIVE InsertByCount(_, _)
\* e goes behind every entry whose count is at least its own
InsertByCount(sorted, e) ==
    IF sorted = <<>> THEN <<e>>
    ELSE IF Head(sorted).count >= e.count
    THEN <<Head(sorted)>> \o InsertByCount(Tail(sorted), e)
    ELSE <<e>> \o sorted

RECURSIVE SortByCount(_)
\* entries.sort(([,a], [,b]) => b - a): descending by count; the sort is
\* stable, entries of equal count keep the order they had
SortByCount(entries) ==
    IF entries = <<>> THEN <<>>
    ELSE InsertByCount(SortByCount(SubSeq(entries, 1, Len(entries) - 1)),
                       entries[Len(entries)])

\* Array.prototype.slice(0, limitCount)
Slice(entries, limitCount) ==
    SubSeq(entries, 1, IF Len(entries) < limitCount THEN Len(entries) ELSE limitCount)

\* sortedEntries of SimpleBarChart
SimpleBarChart(data, limitCount) ==
    Slice(SortByCount(ObjectEntries(data)), limitCount)

\* limitCount of the skill-gap chart
SkillGapLimit == 6

\* nothing is rendered while stats is null
NoChart == [drawn |-> FALSE, sortedEntries |-> <<>>]

\* the dashboard renders once stats is set:
\* <SimpleBarChart data={stats.skillGapCounts} limitCount={6} />
RenderCharts ==
    /\ stats.state = "ok"
    /\ ~chart.drawn
    /\ chart' = [drawn |-> TRUE,
                 sortedEntries |-> SimpleBarChart(stats.skillGapCounts, SkillGapLimit)]
    /\ UNCHANGED <<records, clientVars, adminApps, portal, reports, stats,
                   apiVars, hook, deliveriesLeft, applied>>

NextDashboard ==
    \/ EnrichData
    \/ RenderCharts

\* ------------------------------------------------------------ specifications
\* sessions: logged in as the tenants given by uid (Null: nobody logged in),
\* React state as set by useState
InitSessions(uid, nAnalyses) ==
    /\ userId = uid
    /\ usageLimits = [s \in Sessions |-> InitialLimits]
    /\ showPaywall = [s \in Sessions |-> FALSE]
    /\ errorMessage = [s \in Sessions |-> Null]
    /\ pc = [s \in Sessions |-> "idle"]
    /\ attempt = [s \in Sessions |-> 0]
    /\ delays = [s \in Sessions |-> <<>>]
    /\ thrown = [s \in Sessions |-> Null]
    /\ txn = [s \in Sessions |-> NoTxn]
    /\ setDocPending = [s \in Sessions |-> FALSE]
    /\ analysesLeft = nAnalyses
    /\ completed = [t \in Tenants |-> 0]
    /\ rejected = [t \in Tenants |-> 0]

\* the limiter has seen no request yet
NoApiTraffic(cap) ==
    /\ hits = [a \in Addresses |-> 0]
    /\ forwarded = [a \in Addresses |-> 0]
    /\ requestCap = cap
    /\ analyze = FreeAnalyze

\* the admin dashboard is not open
NoDashboard ==
    /\ reports = <<>>
    /\ stats = NoStats
    /\ chart = NoChart

\* the server process: Firebase Admin initialised or not, no request in flight
InitServer(nDeliveries) ==
    /\ adminApps \in {0, 1}
    /\ hook = [d \in Handlers |-> FreeHook]
    /\ deliveriesLeft = nDeliveries
    /\ applied = {}
    /\ portal = FreePortal

\* The whole system after start-up: no entitlement record yet, one recruiter
\* logged in.
Init ==
    /\ records = [t \in Tenants |-> NoDoc]
    /\ role = [s \in Sessions |-> "RECRUITER"]
    /\ InitSessions([s \in Sessions |-> IF s = 1 THEN FirstTenant ELSE Null],
                    MaxAnalysesLive)
    /\ InitServer(MaxDeliveriesLive)
    /\ NoDashboard
    /\ NoApiTraffic(0)

Next == NextClient \/ NextWebhook

Spec == Init /\ [][Next]_vars

\* The webhook endpoint alone, no client connected; a record is missing or
\* was created by a client and carries some usage.
InitWebhook ==
    /\ records \in [Tenants -> {NoDoc} \cup
            {[DefaultDoc EXCEPT !.bidderChecks = n] : n \in {0, MaxUsageSeed}}]
    /\ role = [s \in Sessions |-> "RECRUITER"]
    /\ InitSessions([s \in Sessions |-> Null], 0)
    /\ InitServer(MaxDeliveries)
    /\ NoDashboard
    /\ NoApiTraffic(0)

SpecWebhook == InitWebhook /\ [][NextWebhook]_vars

\* the steps of the handlers in flight: each is the settling of a promise
\* the handler has started
HandlerSteps ==
    \E d \in Handlers :
        \/ ActivationCommit(d) \/ ActivationFail(d)
        \/ QueryDone(d) \/ QueryFail(d)
        \/ \E t \in Tenants : UpdateCommit(d, t) \/ UpdateFail(d, t)

\* The same with progress: every promise a handler has started settles, so
\* a handler step that stays possible is eventually taken.  Nothing obliges
\* the payment provider to send a further delivery.
SpecWebhookLive == InitWebhook /\ [][NextWebhook]_vars /\ WF_vars(HandlerSteps)

\* One client and the store, no webhook traffic: the tenant's record is
\* missing or already carries some usage around the free limit.
UsageSamples ==
    {0} \cup ((MAX_FREE_AUDITS - Margin) .. (MAX_FREE_AUDITS + Margin))

SampleDocs ==
    {NoDoc} \cup
    {[exists |-> TRUE, bidderChecks |-> n, isSubscribed |-> b,
      stripeCustomerId |-> IF b THEN FirstCustomer ELSE NoCustomer] :
        n \in UsageSamples, b \in BOOLEAN}

InitGate ==
    /\ records \in [Tenants -> SampleDocs]
    /\ \A t \in Tenants \ {FirstTenant} : records[t] = NoDoc
    /\ \E r \in {"ADMIN", "RECRUITER"} : role = [s \in Sessions |-> r]
    /\ InitSessions([s \in Sessions |-> IF s = 1 THEN FirstTenant ELSE Null],
                    MaxAnalyses)
    /\ InitServer(0)
    /\ NoDashboard
    /\ NoApiTraffic(0)

SpecGate == InitGate /\ [][NextClient]_vars

\* Every session has completed an analysis and is entering incrementUsage;
\* the record is missing or has bidderChecks = 0.
InitIncrement ==
    /\ records \in [Tenants -> {d \in SampleDocs : d.bidderChecks = 0}]
    /\ \A t \in Tenants \ {FirstTenant} : records[t] = NoDoc
    /\ \E r \in {"ADMIN", "RECRUITER"} : role = [s \in Sessions |-> r]
    /\ userId = [s \in Sessions |-> FirstTenant]
    /\ usageLimits \in [Sessions -> {InitialLimits,
            [bidderChecks |-> records[FirstTenant].bidderChecks,
             isSubscribed |-> records[FirstTenant].isSubscribed]}]
    /\ showPaywall = [s \in Sessions |-> FALSE]
    /\ errorMessage = [s \in Sessions |-> Null]
    /\ pc = [s \in Sessions |-> IncrementUsageCall(s)]
    /\ attempt \in [Sessions -> 0 .. (maxRetries - 1)]
    /\ delays = [s \in Sessions |-> [i \in 1 .. attempt[s] |-> Backoff(i - 1)]]
    /\ thrown = [s \in Sessions |-> Null]
    /\ txn = [s \in Sessions |-> NoTxn]
    /\ setDocPending = [s \in Sessions |-> FALSE]
    /\ analysesLeft = 0
    /\ completed = [t \in Tenants |-> IF t = FirstTenant THEN NumSessions ELSE 0]
    /\ rejected = [t \in Tenants |-> 0]
    /\ InitServer(0)
    /\ NoDashboard
    /\ NoApiTraffic(0)

SpecIncrement == InitIncrement /\ [][NextTxn]_vars

\* Client, webhook and portal endpoint together: one recruiter is logged in,
\* the tenant's record is missing or is that of a subscriber who has used up
\* the free limit.  The run holds MaxRequestsSystem analyses and webhook deliveries, at
\* least one of each.
InitSystem ==
    /\ records \in [Tenants -> {NoDoc} \cup
            {d \in SampleDocs : d.isSubscribed
                                    /\ d.bidderChecks = MAX_FREE_AUDITS}]
    /\ \A t \in Tenants \ {FirstTenant} : records[t] = NoDoc
    /\ role = [s \in Sessions |-> "RECRUITER"]
    /\ \E nAnalyses \in 1 .. (MaxRequestsSystem - 1) :
        /\ InitSessions([s \in Sessions |->
                            IF s = 1 THEN FirstTenant ELSE Null], nAnalyses)
        /\ InitServer(MaxRequestsSystem - nAnalyses)
    /\ NoDashboard
    /\ NoApiTraffic(0)

NextSystem == NextClient \/ NextWebhook \/ NextPortal

SpecSystem == InitSystem /\ [][NextSystem]_vars

\* The server alone: webhook deliveries and portal requests, no client
\* connected.
InitPortal ==
    /\ records \in [Tenants -> {NoDoc} \cup
            {[DefaultDoc EXCEPT !.bidderChecks = n] : n \in {0, MaxUsageSeed}}]
    /\ role = [s \in Sessions |-> "RECRUITER"]
    /\ InitSessions([s \in Sessions |-> Null], 0)
    /\ InitServer(MaxRequestsSystem)
    /\ NoDashboard
    /\ NoApiTraffic(0)

SpecPortal == InitPortal /\ [][NextWebhook \/ NextPortal]_vars

\* The admin dashboard alone: some history of reports has been loaded and
\* the statistics are computed from it.
WellFormedReports ==
    [suitabilityScore : {Num(60), Num(80), Num(100)},
     yearsExperienceNum : {Undefined, JsNull, Num(3), Num(5)},
     skillGaps : {Arr(<<Str(<<"S", "Q", "L">>)>>)}]

BaseReport == [suitabilityScore |-> Num(80), yearsExperienceNum |-> Num(5),
               skillGaps |-> Arr(<<Str(<<"S", "Q", "L">>)>>)]

\* reports with one field missing or of the wrong type
MalformedReports ==
    {[BaseReport EXCEPT !.yearsExperienceNum = v] :
        v \in {Str(<<>>), Str(<<"7">>), Str(<<"a", "b", "c">>), JsTrue}}
    \cup
    {[BaseReport EXCEPT !.suitabilityScore = v] :
        v \in {Undefined, Str(<<"a", "b", "c">>)}}
    \cup
    {[BaseReport EXCEPT !.skillGaps = v] :
        v \in {Undefined, Str(<<"S", "Q", "L">>), Arr(<<>>),
               Arr(<<Str(<<"s", "q", "l", ".">>), Str(<<" ", "S", "q", "l">>)>>),
               Arr(<<Num(5)>>)}}

\* reports that name several gaps: keys that are array indices ("7", "10"),
\* a gap with a blank before its full stop, and more keys than a chart shows
GapReports ==
    {[BaseReport EXCEPT !.skillGaps = Arr(v)] :
        v \in {<<Str(<<"q">>), Str(<<"7">>), Str(<<"S", "Q", "L", " ", ".">>)>>,
               <<Str(<<"s">>), Str(<<"l">>), Str(<<"s", "q">>)>>,
               <<Str(<<"q", "l">>), Str(<<"1", "0">>), Str(<<"s", "l">>)>>}}

ReportSamples == WellFormedReports \cup MalformedReports \cup GapReports

InitStats ==
    /\ records = [t \in Tenants |-> NoDoc]
    /\ role = [s \in Sessions |-> "ADMIN"]
    /\ InitSessions([s \in Sessions |-> Null], 0)
    /\ InitServer(0)
    /\ NoApiTraffic(0)
    /\ \E n \in 0..MaxReports : reports \in [1..n -> ReportSamples]
    /\ stats = NoStats
    /\ chart = NoChart

SpecStats == InitStats /\ [][NextDashboard]_vars

\* The limiter in front of /api/analyze: requests of two addresses, up to
\* MaxOverLimit more per window than the limiter lets through.
InitLimiter ==
    /\ records = [t \in Tenants |-> NoDoc]
    /\ role = [s \in Sessions |-> "RECRUITER"]
    /\ InitSessions([s \in Sessions |-> Null], 0)
    /\ adminApps = 1
    /\ hook = [d \in Handlers |-> FreeHook]
    /\ deliveriesLeft = 0
    /\ applied = {}
    /\ portal = FreePortal
    /\ NoDashboard
    /\ NoApiTraffic(limit + MaxOverLimit)

SpecLimiter == InitLimiter /\ [][NextAnalyze]_vars

\* /api/analyze next to different states of the entitlement records
EntitlementSamples ==
    {NoDoc,
     [DefaultDoc EXCEPT !.bidderChecks = MAX_FREE_AUDITS],
     [DefaultDoc EXCEPT !.bidderChecks = MAX_FREE_AUDITS, !.isSubscribed = TRUE]}

InitAnalyze ==
    /\ records \in [Tenants -> EntitlementSamples]
    /\ role = [s \in Sessions |-> "RECRUITER"]
    /\ InitSessions([s \in Sessions |-> Null], 0)
    /\ InitServer(0)
    /\ NoDashboard
    /\ NoApiTraffic(MaxAnalyzeRequests)

SpecAnalyze == InitAnalyze /\ [][NextAnalyze]_vars

\* ------------------------------------------------------------------ claims
AllIdle == \A s \in Sessions : pc[s] = "idle"

\* C1: the gate at the start of handleAnalyze shows the paywall and starts no
\* analysis exactly when the tenant is not an ADMIN, is not subscribed and
\* the usage count it sees is at least MAX_FREE_AUDITS; in every other case
\* the call passes the gate (an analysis starts when both files are chosen).
C1_GateDecision ==
    [][\A s \in Sessions :
        LET deny == /\ role[s] # "ADMIN"
                    /\ ~usageLimits[s].isSubscribed
                    /\ usageLimits[s].bidderChecks >= 50
        IN  /\ (pc[s] = "idle" /\ pc'[s] = "processFile") => ~deny
            /\ (~showPaywall[s] /\ showPaywall'[s]) => (deny /\ pc'[s] = "idle")
            /\ (pc[s] = "idle" /\ errorMessage[s] # "upload"
                    /\ errorMessage'[s] = "upload") => ~deny
            /\ (userId[s] # Null /\ pc[s] = "idle" /\ analysesLeft > 0 /\ ~deny)
                    => ENABLED (HandleAnalyze(s, TRUE) /\ pc'[s] = "processFile")
    ]_vars

\* a recruiter was let through at 49, the analysis was counted, and the next
\* call, seeing 50, got the paywall
C1_Witness ==
    \E s \in Sessions :
        /\ role[s] = "RECRUITER" /\ ~usageLimits[s].isSubscribed
        /\ usageLimits[s].bidderChecks = MAX_FREE_AUDITS
        /\ showPaywall[s] /\ pc[s] = "idle"
        /\ completed[userId[s]] = 1
        /\ records[userId[s]].bidderChecks = MAX_FREE_AUDITS

C8_FailureConsumesNoQuota ==
    [][/\ \A s \in Sessions :
            /\ (pc[s] \in {"processFile", "fetch"} /\ pc'[s] = "idle")
                    => /\ records' = records
                       /\ completed' = completed
                       /\ errorMessage'[s] = "failed"
            /\ (pc[s] \notin {"txnGet", "txnCommit"} /\ pc'[s] = "txnGet")
                    => completed'[userId[s]] = completed[userId[s]] + 1
       /\ \A t \in Tenants :
            records'[t].bidderChecks > records[t].bidderChecks
                => \E s \in Sessions : /\ userId[s] = t
                                       /\ pc[s] = "txnCommit" /\ pc'[s] = "idle"
    ]_vars

\* an analysis has failed on its last fetch attempt and the record shows no usage
C8_Witness ==
    \E s \in Sessions :
        /\ pc[s] = "idle" /\ errorMessage[s] = "failed"
        /\ attempt[s] = maxRetries - 1
        /\ analysesLeft < MaxAnalyses
        /\ completed[userId[s]] = 0
        /\ records[userId[s]].exists /\ records[userId[s]].bidderChecks = 0

\* C9: whenever no analysis is in progress, bidderChecks of every tenant
\* equals the number of analyses of that tenant that produced a report.
C9_ExactCount ==
    AllIdle => \A t \in Tenants : records[t].bidderChecks = completed[t]

\* ---- webhook claims
IsActivation(e) == e.type = "checkout.session.completed"
IsCancellation(e) == e.type = "customer.subscription.deleted"

C5_RedeliveryChangesNothing ==
    [][\A d \in Handlers :
        (hook[d].redelivery /\ hook'[d] # hook[d]) => records' = records
    ]_vars

\* C6: an activation sets isSubscribed and stripeCustomerId of the named
\* tenant's record and leaves every other field and record alone; applied to
\* a record that already shows the event's effect it changes nothing.
C6_ActivationIdempotent ==
    [][\A d \in Handlers :
        ActivationCommit(d) =>
            LET t == hook[d].event.client_reference_id
                c == hook[d].event.customer
            IN  /\ records'[t].exists /\ records'[t].isSubscribed
                /\ records'[t].stripeCustomerId = c
                /\ records'[t].bidderChecks = records[t].bidderChecks
                /\ \A u \in Tenants \ {t} : records'[u] = records[u]
                /\ (records[t].exists /\ records[t].isSubscribed
                        /\ records[t].stripeCustomerId = c)
                    => records' = records
    ]_vars

\* the same activation is in flight again for a record that already shows it
\* and carries usage
C6_Witness ==
    \E d \in Handlers :
        LET t == hook[d].event.client_reference_id IN
        /\ hook[d].pc = "awaitSet"
        /\ hook[d].redelivery
        /\ records[t].isSubscribed
        /\ records[t].stripeCustomerId = hook[d].event.customer
        /\ records[t].bidderChecks > 0

\* C7: a delivery whose signature does not verify is answered 400 at once:
\* no store operation is issued for it and no record changes.
C7_SignatureRejected ==
    [][\A d \in Handlers, e \in Events :
        (Deliver(d, e) /\ ~e.sig)
            => /\ hook'[d].response = 400
               /\ hook'[d].pc = "free"
               /\ hook'[d].pending = {}
               /\ records' = records
               /\ applied' = applied
    ]_vars

C7_Witness ==
    \E d \in Handlers :
        /\ hook[d].pc = "free" /\ hook[d].response = 400
        /\ \A t \in Tenants : ~records[t].isSubscribed

\* C10: the fan-out of a cancellation ends only when every record found by
\* its lookup has been downgraded: a write that failed has been retried.
C10_FailedWriteRetried ==
    [][\A d \in Handlers, t \in Tenants :
        (hook[d].pc = "responded" /\ hook[d].pending = {t}
            /\ hook'[d].pc = "free")
            => /\ hook[d].failed = {}
               /\ ~records'[t].isSubscribed
    ]_vars

\* C4: a record carries a stripeCustomerId exactly when an activation for its
\* tenant has been applied.
C4_CustomerRefIffActivated ==
    \A t \in Tenants :
        (records[t].stripeCustomerId # NoCustomer)
            <=> (\E e \in applied : IsActivation(e) /\ e.client_reference_id = t)

\* C11: the fan-out of a cancellation starts a downgrade write for every
\* record its lookup found; a write that fails changes no record (a downgrade
\* already committed stays committed), leaves every other write of the
\* fan-out pending, and each pending write can still commit.
C11_FailureIsolated ==
    [][\A d \in Handlers :
        /\ QueryDone(d) => hook'[d].pending = hook'[d].snapshot
        /\ \A t \in Tenants :
            UpdateFail(d, t) =>
                /\ records' = records
                /\ \A u \in hook[d].pending \ {t} :
                        /\ hook'[d].pc = "responded"
                        /\ u \in hook'[d].pending
                        /\ hook'[d].downgraded = hook[d].downgraded
        /\ hook[d].pc = "responded" =>
                \A u \in hook[d].pending : ENABLED UpdateCommit(d, u)
    ]_vars

\* one write of a fan-out over two records has failed and the write for the
\* other record is still on its way
C11_Witness ==
    \E d \in Handlers :
        /\ hook[d].pc = "responded"
        /\ hook[d].failed # {}
        /\ hook[d].pending # {}
        /\ hook[d].snapshot = hook[d].failed \cup hook[d].pending
        /\ \A u \in hook[d].pending : records[u].isSubscribed

\* C12: every gate decision is the one the isSubscribed value stored in the
\* tenant's record at that moment gives: with the usage count the session
\* sees, handleAnalyze starts an analysis only if the record's isSubscribed
\* lets it through, and shows the paywall only if the record's isSubscribed
\* denies.
C12_GateSeesCommittedEntitlement ==
    [][\A s \in Sessions :
        (userId[s] # Null /\ pc[s] = "idle") =>
            LET fresh == [bidderChecks |-> usageLimits[s].bidderChecks,
                          isSubscribed |-> records[userId[s]].isSubscribed]
            IN  /\ pc'[s] = "processFile" => ~GateDenies(role[s], fresh)
                /\ (~showPaywall[s] /\ showPaywall'[s])
                        => GateDenies(role[s], fresh)
    ]_vars

\* C13: a verified customer.subscription.deleted whose customer is carried
\* by no record ends when its lookup resolves: the handler answers 200, has
\* started no write, and no record has changed from delivery to response.
C13_UnknownCustomerCancellation ==
    [][\A d \in Handlers :
        /\ \A e \in Events :
            (Deliver(d, e) /\ e.sig /\ IsCancellation(e))
                => /\ records' = records
                   /\ hook'[d].response \in {0, 200}
        /\ (QueryDone(d)
                /\ \A t \in Tenants :
                        ~records[t].exists
                        \/ records[t].stripeCustomerId # hook[d].event.customer)
                => /\ hook'[d].pc = "free"
                   /\ hook'[d].response = 200
                   /\ hook'[d].pending = {}
                   /\ records' = records
    ]_vars

\* a cancellation has been answered 200 although no record has ever carried
\* a customer reference; the records that exist still show their usage
C13_Witness ==
    /\ \E e \in applied : IsCancellation(e)
    /\ \A t \in Tenants : records[t].stripeCustomerId = NoCustomer
    /\ \E t \in Tenants : records[t].exists /\ records[t].bidderChecks > 0
    /\ \E d \in Handlers : hook[d].pc = "free" /\ hook[d].response = 200

\* C14: a verified delivery whose type is neither checkout.session.completed
\* nor customer.subscription.deleted is answered 200 in the step that
\* receives it: no lookup and no write is started, no record changes.
C14_OtherTypesIgnored ==
    [][\A d \in Handlers, e \in Events :
        (Deliver(d, e) /\ e.sig /\ ~IsActivation(e) /\ ~IsCancellation(e))
            => /\ hook'[d].pc = "free"
               /\ hook'[d].response = 200
               /\ hook'[d].snapshot = {} /\ hook'[d].pending = {}
               /\ records' = records
               /\ applied' = applied
    ]_vars

\* an invoice.paid delivery has been answered 200 by a server with Firebase
\* Admin initialised while a record is subscribed
C14_Witness ==
    \E d \in Handlers :
        /\ hook[d].pc = "free" /\ hook[d].response = 200
        /\ hook[d].event.type = "invoice.paid"
        /\ adminApps = 1
        /\ \E t \in Tenants : records[t].isSubscribed

\* C15: in every step that takes isSubscribed of a tenant's record from
\* FALSE to TRUE, the write is the committed set() of a verified
\* checkout.session.completed delivery whose client_reference_id is that
\* tenant; no step of the client, of a cancellation or of the portal does it.
C15_OnlyActivationUnlocks ==
    [][\A t \in Tenants :
        (~records[t].isSubscribed /\ records'[t].isSubscribed) =>
            \E d \in Handlers :
                /\ ActivationCommit(d)
                /\ hook[d].event.sig
                /\ IsActivation(hook[d].event)
                /\ hook[d].event.client_reference_id = t
    ]_vars

\* a record has been unlocked during the run by an activation naming its
\* tenant (no record starts with this customer)
C15_Witness ==
    \E e \in applied :
        /\ IsActivation(e)
        /\ e.customer # FirstCustomer
        /\ records[e.client_reference_id].isSubscribed
        /\ records[e.client_reference_id].stripeCustomerId = e.customer

\* C16: no step of the webhook changes bidderChecks of any record; a
\* committed activation changes nothing outside isSubscribed and
\* stripeCustomerId of the record of the tenant it names (creating the
\* record if it is missing); a committed downgrade changes nothing but
\* isSubscribed of its record.
C16_MergeSemantics ==
    [][/\ \A u \in Tenants : records'[u].bidderChecks = records[u].bidderChecks
       /\ \A d \in Handlers :
            /\ ActivationCommit(d) =>
                    \A u \in Tenants \ {hook[d].event.client_reference_id} :
                        records'[u] = records[u]
            /\ \A t \in Tenants :
                    UpdateCommit(d, t) =>
                        /\ records'[t] = [records[t] EXCEPT
                                !.isSubscribed = records'[t].isSubscribed]
                        /\ \A u \in Tenants \ {t} : records'[u] = records[u]
    ]_vars

\* a record that carried usage was activated and later cancelled, and still
\* shows its usage and its customer reference
C16_Witness ==
    \E t \in Tenants :
        /\ records[t].bidderChecks = MaxUsageSeed
        /\ records[t].stripeCustomerId # NoCustomer
        /\ ~records[t].isSubscribed
        /\ \E e \in applied :
                IsCancellation(e) /\ e.customer = records[t].stripeCustomerId
        /\ \E e \in applied :
                IsActivation(e) /\ e.client_reference_id = t

\* C17 as stated: whenever the portal endpoint answers a request naming a
\* tenant, the answer is 404 if the tenant's record has no stripeCustomerId
\* and the portal URL of the record's customer otherwise.
C17_PortalAnswers404OrUrl ==
    [][\A u \in Tenants :
        ((PortalRequest(u) \/ (portal.userId = u /\ portal' # portal))
            /\ portal'.pc = "free")
            => IF records[u].stripeCustomerId = NoCustomer
               THEN portal'.status = 404
               ELSE /\ portal'.status = 200
                    /\ portal'.url = records[u].stripeCustomerId
    ]_vars

\* C17, amended: no step of the portal endpoint changes a record.  A request
\* is answered 500 at once when Firebase Admin is not initialised or the body
\* names no tenant, and otherwise looks the record up.  When the lookup
\* resolves, the answer is 404 exactly when the record is missing or has no
\* stripeCustomerId; otherwise a portal session is requested for that
\* customer, whatever isSubscribed is, and its URL is returned when Stripe
\* answers.  A lookup or Stripe call that fails is answered 500.
C17_PortalLookup ==
    [][/\ portal' # portal => records' = records
       /\ \A u \in Tenants \cup {Null} :
            PortalRequest(u) =>
                IF adminApps = 0 \/ u = Null
                THEN portal'.pc = "free" /\ portal'.status = 500
                ELSE portal'.pc = "awaitGet" /\ portal'.userId = u
       /\ PortalGetDone =>
            LET doc == records[portal.userId] IN
            IF ~doc.exists \/ doc.stripeCustomerId = NoCustomer
            THEN portal'.pc = "free" /\ portal'.status = 404
            ELSE /\ portal'.pc = "awaitCreate"
                 /\ portal'.customer = doc.stripeCustomerId
       /\ PortalCreateDone =>
            /\ portal'.pc = "free" /\ portal'.status = 200
            /\ portal'.url = portal.customer
       /\ PortalFail => portal'.pc = "free" /\ portal'.status = 500
       /\ portal.pc = "awaitCreate" => ENABLED PortalCreateDone
    ]_vars

\* the lookup has found the customer of a record whose subscription is
\* cancelled, and the portal session for that customer is being created
C17_Witness ==
    /\ portal.pc = "awaitCreate"
    /\ portal.customer # NoCustomer
    /\ ~portal.userDoc.isSubscribed
    /\ portal.userDoc.stripeCustomerId = portal.customer

\* C18: a fetchWithRetry call makes at most three attempts.  A failure of
\* the first attempt is followed by a wait of 1000 ms and the second
\* attempt, a failure of the second by a wait of 2000 ms and the third; a
\* failure of the third is followed by no wait and throws that attempt's
\* error, unwrapped, to handleAnalyze.  An attempt that succeeds ends the call
\* with no further attempt and no wait.
C18_RetryBackoff ==
    [][\A s \in Sessions :
        /\ attempt[s] \in {0, 1, 2}
        /\ pc[s] = "fetch" =>
                /\ thrown[s] = Null
                /\ delays[s] = CASE attempt[s] = 0 -> <<>>
                                 [] attempt[s] = 1 -> <<1000>>
                                 [] attempt[s] = 2 -> <<1000, 2000>>
        /\ \A err \in FetchErrors :
                FetchAttemptFails(s, err) =>
                    IF attempt[s] < 2
                    THEN /\ pc'[s] = "fetch"
                         /\ attempt'[s] = attempt[s] + 1
                         /\ Len(delays'[s]) = Len(delays[s]) + 1
                    ELSE /\ pc'[s] = "idle"
                         /\ delays'[s] = <<1000, 2000>>
                         /\ thrown'[s] = err
                         /\ errorMessage'[s] = "failed"
        /\ \A body \in {"report", "noText", "badJson"} :
                FetchAttemptSucceeds(s, body) =>
                    /\ pc'[s] # "fetch"
                    /\ attempt'[s] = attempt[s]
                    /\ delays'[s] = delays[s]
                    /\ thrown'[s] = Null
    ]_vars

\* all three attempts of a call have failed: the call waited 1 s and 2 s and
\* threw the last error
C18_Witness ==
    \E s \in Sessions :
        /\ pc[s] = "idle"
        /\ thrown[s] \in FetchErrors
        /\ attempt[s] = 2
        /\ delays[s] = <<1000, 2000>>
        /\ errorMessage[s] = "failed"

\* C19: the mean experience returned by calculateAdminStats is the sum of
\* the yearsExperienceNum values that are numbers divided by how many there
\* are (values that are absent, null or not numbers count for nothing), and
\* the mean score of reports with numeric scores is their sum divided by the
\* number of reports, both to one decimal.
C19_MeansOverPresentValues ==
    (stats.state = "ok" /\ reports # <<>>) =>
        LET n == Len(reports)
            present == {i \in 1..n : reports[i].yearsExperienceNum.k = "number"}
            expSum[i \in 0..n] ==
                IF i = 0 THEN 0
                ELSE expSum[i - 1] + (IF i \in present
                                      THEN reports[i].yearsExperienceNum.n ELSE 0)
            scoreSum[i \in 0..n] ==
                IF i = 0 THEN 0 ELSE scoreSum[i - 1] + reports[i].suitabilityScore.n
        IN  /\ present # {} =>
                stats.avgExperience = ToFixed1(Num(expSum[n]), Cardinality(present))
            /\ (\A i \in 1..n : reports[i].suitabilityScore.k = "number") =>
                stats.avgScore = ToFixed1(Num(scoreSum[n]), n)

\* C20: calculateAdminStats returns for every list of reports, and a
\* malformed value is treated as absent: the call never throws and never
\* returns a mean score that is not a number.
C20_NeverThrows ==
    /\ stats.state # "threw"
    /\ stats.avgScore # Str(<<"N", "a", "N">>)
\* C21: the skill-gap chart shows the SkillGapLimit entries of skillGapCounts
\* with the highest counts, in descending order of count, entries of equal
\* count in the order in which their keys were first inserted into the table,
\* whatever the key strings are (keys that look like integers included).
C21_TopNInsertionOrder ==
    chart.drawn =>
        chart.sortedEntries = Slice(SortByCount(stats.skillGapCounts), SkillGapLimit)

\* C30: the normalization of calculateAdminStats is idempotent: every key of
\* skillGapCounts, being a normalized gap, is its own normalized form, so
\* gaps with equal normalized text are counted under one key.
C30_NormalizationIdempotent ==
    stats.state = "ok" =>
        \A i \in 1..Len(stats.skillGapCounts) :
            NormalizedGap(stats.skillGapCounts[i].key) = stats.skillGapCounts[i].key

\* C22: in one window of the limiter at most `limit` (100) requests of an
\* address are passed on to the /api/analyze handler, and every further
\* request of that address in the window is answered 429 with the payload
\* "Too many requests, please try again later." without a call to the
\* model API.
C22_AtMostLimitPerWindow ==
    [][/\ \A a \in Addresses : forwarded'[a] <= limit
       /\ \A a \in Addresses, body \in Bodies :
            AnalyzeRequest(a, body) /\ forwarded[a] = limit =>
                /\ analyze'.pc = "free"
                /\ analyze'.status = 429
                /\ analyze'.payload = TooManyRequests
                /\ forwarded' = forwarded]_vars

\* the limiter has turned away a request of an address whose window is used
\* up, while the other address is still served
C22_Witness ==
    /\ analyze.pc = "free" /\ analyze.status = 429
    /\ \E a \in Addresses : forwarded[a] = limit /\ hits[a] > limit
    /\ \E a \in Addresses : forwarded[a] > 0 /\ hits[a] < limit

\* C23: the response of POST /api/analyze is fixed by the reply of the model
\* API alone (its data with status 200, or its error message with status
\* 500), whatever isSubscribed and the usage count of the records are, and
\* no step of the endpoint changes a record.
C23_ResponseIgnoresEntitlement ==
    [][/\ \A reply \in UpstreamReplies :
            AnalyzeFetchDone(reply) =>
                /\ analyze'.pc = "free"
                /\ analyze'.status = (IF reply.ok THEN 200 ELSE 500)
                /\ analyze'.payload =
                        (IF reply.ok THEN reply.data
                         ELSE IF reply.message # Null THEN reply.message
                         ELSE "Google API Error")
       /\ \A a \in Addresses, body \in Bodies :
            AnalyzeRequest(a, body) => analyze'.pc = "awaitFetch"
       /\ NextAnalyze => records' = records]_vars

\* an analysis has been delivered although every tenant is unsubscribed and
\* has used up the free audits
C23_Witness ==
    /\ analyze.pc = "free" /\ analyze.status = 200
    /\ \A t \in Tenants : /\ records[t].exists
                          /\ ~records[t].isSubscribed
                          /\ records[t].bidderChecks >= MAX_FREE_AUDITS

\* C24: the usage count of a tenant that is not subscribed and whose sessions
\* are not ADMIN never goes beyond MAX_FREE_AUDITS, whatever the interleaving
\* of its sessions and of the snapshot listener with the requests.
C24_FreeLimitNeverExceeded ==
    [][\A t \in Tenants :
        (/\ \A s \in Sessions : userId[s] = t => role[s] # "ADMIN"
         /\ ~records[t].isSubscribed /\ ~records'[t].isSubscribed
         /\ records[t].bidderChecks <= MAX_FREE_AUDITS)
        => records'[t].bidderChecks <= MAX_FREE_AUDITS]_vars

\* C25: a downgrade write of a cancellation for customer R only ever lands on
\* a record that still carries R when the write commits: a record that was
\* re-activated under another customer between the lookup and the write is
\* not set back to isSubscribed = false.
C25_CancellationSparesReactivation ==
    [][\A d \in Handlers, t \in Tenants :
        UpdateCommit(d, t) =>
            records[t].stripeCustomerId = hook[d].event.customer]_vars

\* C26: the usage count of a record never decreases, whatever the
\* interleaving of the lazy creation by the listener, the increments and
\* the webhook writes.
C26_UsageNeverDecreases ==
    [][\A t \in Tenants :
        records'[t].bidderChecks >= records[t].bidderChecks]_vars

\* C27: once the webhook has answered 200 to a cancellation, none of the
\* downgrade writes of its fan-out is still in flight.
C27_ResponseAfterWrites ==
    \A d \in Handlers : hook[d].response = 200 => hook[d].pending = {}

\* C28: every delivery that the handler does not answer in the step that
\* receives it is eventually answered with status 200 or 400, the
\* activation whose write to the store fails included.
C28_EveryDeliveryAnswered ==
    \A d \in Handlers :
        (hook[d].pc \in {"awaitSet", "awaitQuery"})
            ~> (hook[d].response \in {200, 400})

\* C29: a verified checkout.session.completed without client_reference_id is
\* answered 200 in the step that receives it: no write is started, no record
\* changes and no effect is recorded.
C29_CheckoutWithoutReference ==
    [][\A d \in Handlers, e \in Events :
        (Deliver(d, e) /\ e.sig /\ IsActivation(e) /\ e.client_reference_id = Null)
            => /\ hook'[d].pc = "free"
               /\ hook'[d].response = 200
               /\ hook'[d].snapshot = {} /\ hook'[d].pending = {}
               /\ records' = records
               /\ applied' = applied
    ]_vars

\* with Firebase Admin initialised a checkout event has been answered 200 by
\* the step that received it, which only happens without a reference; no
\* record exists
C29_Witness ==
    /\ adminApps = 1
    /\ \E d \in Handlers : /\ hook[d].pc = "free"
                            /\ hook[d].response = 200
                            /\ hook[d].event.type = "checkout.session.completed"
    /\ \A t \in Tenants : ~records[t].exists

====
